---- MODULE Spec2Model ----
(***************************************************************************)
(* Model of train.py of WaSR: the training orchestration.  main parses the *)
(* command line, echoes it, and train_wasr seeds the process, builds the   *)
(* datasets and loaders, the model (with optional pretrained weights), the *)
(* logger, the callback set and the trainer, and runs fit.                 *)
(*                                                                         *)
(* Optional values (Python None or a value) are sequences of length <= 1:  *)
(* None is <<>> and a value x is <<x>>.                                    *)
(***************************************************************************)
EXTENDS Integers, Sequences, FiniteSets, TLC

VARIABLES cli, visible, ckpt, args, pc, exit_code, error, seed_state, log,
          normalize_t, transform, train_ds, train_dl, val_ds, val_dl,
          model, weights, lit, logger, callbacks, trainer, fit, hist,
          blobP, arch, restoredWrapped, restoredBare,
          ld, order, pos, batch, batches

vars == <<cli, visible, ckpt, args, pc, exit_code, error, seed_state, log,
          normalize_t, transform, train_ds, train_dl, val_ds, val_dl,
          model, weights, lit, logger, callbacks, trainer, fit, hist,
          blobP, arch, restoredWrapped, restoredBare,
          ld, order, pos, batch, batches>>

pipeVars == <<cli, visible, ckpt, args, pc, exit_code, error, seed_state, log,
              normalize_t, transform, train_ds, train_dl, val_ds, val_dl,
              model, weights, lit, logger, callbacks, trainer, fit, hist>>

weightVars == <<blobP, arch, restoredWrapped, restoredBare>>

loaderVars == <<ld, order, pos, batch, batches>>

None == <<>>

Some(x) == <<x>>

IsNone(o) == Len(o) = 0

Val(o) == o[1]

\* ---------------------------------------------------------------- bounds

MaxEpochs == 5

MaxPatience == 3

MaxMetric == 2

MaxSeed == 1

MaxVisible == 2

MaxSamples == 10

MaxShuffle == 4

MaxBatch == 3

MaxParam == 1

\* ------------------------------------------------------ module constants

DEVICE_BATCH_SIZE == 3

NUM_CLASSES == 3

PATIENCE == None

LOG_STEPS == 20

NUM_WORKERS == 1

NUM_GPUS == -1

RANDOM_SEED == None

OUTPUT_DIR == "output"

PRETRAINED_DEEPLAB == TRUE

PRECISION == 32

MODEL == "wasr_resnet101"

MONITOR_VAR == "val/iou/obstacle"

MONITOR_VAR_MODE == "max"

\* ------------------------------------------------------------ get_arguments

\* A device spec: a count (-1: all visible devices) or a list of device ids.
GpuCount(k) == [kind |-> "count", n |-> k, ids |-> {}]

GpuIds(S) == [kind |-> "ids", n |-> 0, ids |-> S]

\* The command line: each flag is None (not given) or Some(value); a
\* store_true flag is a BOOLEAN (given or not).
NoFlags ==
    [train_file |-> None, val_file |-> None, batch_size |-> None,
     validation |-> FALSE, num_classes |-> None, patience |-> None,
     log_steps |-> None, gpus |-> None, workers |-> None,
     random_seed |-> None, pretrained |-> None, output_dir |-> None,
     model_name |-> None, pretrained_weights |-> None, imu |-> FALSE,
     model |-> None, monitor_metric |-> None, monitor_metric_mode |-> None,
     no_augmentation |-> FALSE, precision |-> None, resume_from |-> None,
     epochs |-> 1]

\* A flag's value, or its default when the flag is not given.
OrDefault(o, d) == IF IsNone(o) THEN d ELSE Val(o)

\* parse_args exits (status 2) when --model-name is missing or a value is
\* outside its choices.
ParseFails(c) ==
    \/ IsNone(c.model_name)
    \/ ~IsNone(c.model) /\ Val(c.model) \notin {"wasr_resnet101", "wasr_resnet50", "deeplab"}
    \/ ~IsNone(c.monitor_metric_mode) /\ Val(c.monitor_metric_mode) \notin {"min", "max"}
    \/ ~IsNone(c.precision) /\ Val(c.precision) \notin {16, 32}

\* The parsed namespace.  The optional fields keep None; epochs is the option
\* LitModel.add_argparse_args contributes (read at the trainer's max_epochs),
\* given here already resolved.
get_arguments(c) ==
    [train_file |-> c.train_file,
     val_file |-> c.val_file,
     batch_size |-> OrDefault(c.batch_size, DEVICE_BATCH_SIZE),
     validation |-> c.validation,
     num_classes |-> OrDefault(c.num_classes, NUM_CLASSES),
     patience |-> IF IsNone(c.patience) THEN PATIENCE ELSE c.patience,
     log_steps |-> OrDefault(c.log_steps, LOG_STEPS),
     gpus |-> OrDefault(c.gpus, GpuCount(NUM_GPUS)),
     workers |-> OrDefault(c.workers, NUM_WORKERS),
     random_seed |-> IF IsNone(c.random_seed) THEN RANDOM_SEED ELSE c.random_seed,
     pretrained |-> OrDefault(c.pretrained, PRETRAINED_DEEPLAB),
     output_dir |-> OrDefault(c.output_dir, OUTPUT_DIR),
     model_name |-> OrDefault(c.model_name, ""),
     pretrained_weights |-> c.pretrained_weights,
     imu |-> c.imu,
     model |-> OrDefault(c.model, MODEL),
     monitor_metric |-> OrDefault(c.monitor_metric, MONITOR_VAR),
     monitor_metric_mode |-> OrDefault(c.monitor_metric_mode, MONITOR_VAR_MODE),
     no_augmentation |-> c.no_augmentation,
     precision |-> OrDefault(c.precision, PRECISION),
     resume_from |-> c.resume_from,
     epochs |-> c.epochs]

\* ------------------------------------------------- external collaborators

\* The manifests that exist and can be read.
Readable == {"train.yaml", "val.yaml"}

\* datasets.mastr.MaSTr1325Dataset: fails when the manifest path is missing
\* or unreadable; otherwise a dataset over the manifest.  transform defaults
\* to None and include_original to FALSE.
MaSTr1325Dataset(dataset_file, t, norm, include_original) ==
    IF IsNone(dataset_file) \/ Val(dataset_file) \notin Readable
    THEN [ok |-> FALSE, ds |-> None]
    ELSE [ok |-> TRUE,
          ds |-> Some([file |-> Val(dataset_file), transform |-> t,
                       normalize_t |-> norm,
                       include_original |-> include_original])]

\* torch.utils.data.DataLoader: shuffle and drop_last default to FALSE.
DataLoader(ds, batch_size, shuffle, num_workers, drop_last) ==
    [dataset |-> ds, batch_size |-> batch_size, shuffle |-> shuffle,
     num_workers |-> num_workers, drop_last |-> drop_last]

\* pl.seed_everything: the seeds it may return.  A given seed is kept; a
\* missing one is drawn.
SeedChoices(seed) == IF IsNone(seed) THEN 0..MaxSeed ELSE {Val(seed)}

\* ------------------------------------------------------------- train_wasr

\* An entry of the process's output: what was echoed or built, and the seed
\* the configuration record carried at that moment.
Ev(name, a) == [ev |-> name, seed |-> a.random_seed]

\* Lines 94-97: the augmentation transform, unless disabled.
Transform(a) == IF ~a.no_augmentation THEN Some("augmentation") ELSE None

\* Lines 99-100.
TrainDataset(a, t, norm) == MaSTr1325Dataset(a.train_file, t, norm, FALSE)

\* As TrainLoader, with drop_last left at its default.
TrainLoader_KeepLast(ds, a) ==
    DataLoader(ds, a.batch_size, TRUE, a.workers, FALSE)

\* Lines 102-103.
TrainLoader(ds, a) == DataLoader(ds, a.batch_size, TRUE, a.workers, TRUE)

\* As ValDataset, reading the training manifest.
ValDataset_TrainFile(a, norm) ==
    MaSTr1325Dataset(a.train_file, None, norm, TRUE)

\* As ValDataset, with the training transform passed on.
ValDataset_WithTransform(a, norm) ==
    MaSTr1325Dataset(a.val_file, Transform(a), norm, TRUE)

\* Line 107: no transform is passed.
ValDataset(a, norm) == MaSTr1325Dataset(a.val_file, None, norm, TRUE)

\* Line 108.
ValLoader(ds, a) == DataLoader(ds, a.batch_size, FALSE, a.workers, FALSE)

\* As BuildModel, with imu passed to every factory.
BuildModel_ImuToAll(a) ==
    IF a.model = "wasr_resnet101"
    THEN [factory |-> "wasr_deeplabv2_resnet101",
          kwargs |-> [num_classes |-> a.num_classes,
                      pretrained |-> a.pretrained, imu |-> a.imu]]
    ELSE IF a.model = "wasr_resnet50"
    THEN [factory |-> "wasr_deeplabv2_resnet50",
          kwargs |-> [num_classes |-> a.num_classes, imu |-> a.imu]]
    ELSE [factory |-> "deeplabv3_resnet101",
          kwargs |-> [num_classes |-> a.num_classes,
                      pretrained |-> a.pretrained, imu |-> a.imu]]

\* Lines 110-115: the factory called and the keyword arguments passed.
BuildModel(a) ==
    IF a.model = "wasr_resnet101"
    THEN [factory |-> "wasr_deeplabv2_resnet101",
          kwargs |-> [num_classes |-> a.num_classes,
                      pretrained |-> a.pretrained, imu |-> a.imu]]
    ELSE IF a.model = "wasr_resnet50"
    THEN [factory |-> "wasr_deeplabv2_resnet50",
          kwargs |-> [num_classes |-> a.num_classes, imu |-> a.imu]]
    ELSE [factory |-> "deeplabv3_resnet101",
          kwargs |-> [num_classes |-> a.num_classes,
                      pretrained |-> a.pretrained]]

\* ------------------------------------------------------ pretrained weights

\* What torch.load returns: a tensor, or a mapping from names to such values.
Tensor(v) == [t |-> "tensor", v |-> v, d |-> <<>>]

Dict(d) == [t |-> "dict", v |-> 0, d |-> d]

ParamNames == {"model", "backbone", "decoder"}

\* The parameter mappings: names to tensors.
ParamMaps ==
    UNION {[S -> {Tensor(v) : v \in 0..MaxParam}] : S \in SUBSET ParamNames}

\* The wrapper shape of a checkpoint: {model: P}.
Wrap(P) == Dict([k \in {"model"} |-> Dict(P)])

\* nn.Module.load_state_dict (strict): the state restored into a model whose
\* parameters are named archKeys; it fails, restoring nothing, when x is not a
\* mapping of exactly those names to tensors.
load_state_dict(archKeys, x) ==
    IF /\ x.t = "dict"
       /\ DOMAIN x.d = archKeys
       /\ \A k \in DOMAIN x.d : x.d[k].t = "tensor"
    THEN [ok |-> TRUE, state |-> Some(x.d)]
    ELSE [ok |-> FALSE, state |-> None]

\* As LoadWeights, never unwrapping.
LoadWeights_NoUnwrap(archKeys, state_dict) ==
    load_state_dict(archKeys, state_dict)

\* Lines 119-124: the checkpoint shape is unwrapped when the loaded mapping
\* has the key 'model'.
LoadWeights(archKeys, state_dict) ==
    IF "model" \in DOMAIN state_dict.d
    THEN load_state_dict(archKeys, state_dict.d["model"])
    ELSE load_state_dict(archKeys, state_dict)

\* -------------------------------------------------- callbacks and trainer

EarlyStopping(monitor, patience, mode) ==
    [kind |-> "EarlyStopping", monitor |-> monitor, patience |-> patience,
     mode |-> mode]

ModelCheckpoint(save_last, save_top_k, monitor, mode) ==
    [kind |-> "ModelCheckpoint", monitor |-> monitor, mode |-> mode,
     save_last |-> save_last, save_top_k |-> save_top_k]

\* As Callbacks, with EarlyStopping outside the validation test.
Callbacks_IgnoreValidation(a) ==
    (IF ~IsNone(a.patience)
     THEN <<EarlyStopping(a.monitor_metric, Val(a.patience),
                          a.monitor_metric_mode)>>
     ELSE <<>>)
    \o (IF a.validation
        THEN <<ModelCheckpoint(TRUE, 1, a.monitor_metric,
                               a.monitor_metric_mode)>>
        ELSE <<>>)

\* As Callbacks, with EarlyStopping left at the library's default patience.
Callbacks_DefaultPatience(a) ==
    IF a.validation
    THEN (IF ~IsNone(a.patience)
          THEN <<EarlyStopping(a.monitor_metric, 3, a.monitor_metric_mode)>>
          ELSE <<>>)
         \o <<ModelCheckpoint(TRUE, 1, a.monitor_metric,
                              a.monitor_metric_mode)>>
    ELSE <<>>

\* As Callbacks, with ModelCheckpoint inside the patience test.
Callbacks_CheckpointUnderPatience(a) ==
    IF a.validation /\ ~IsNone(a.patience)
    THEN <<EarlyStopping(a.monitor_metric, Val(a.patience),
                         a.monitor_metric_mode),
           ModelCheckpoint(TRUE, 1, a.monitor_metric,
                           a.monitor_metric_mode)>>
    ELSE <<>>

\* Lines 132-137.
Callbacks(a) ==
    IF a.validation
    THEN (IF ~IsNone(a.patience)
          THEN <<EarlyStopping(a.monitor_metric, Val(a.patience),
                               a.monitor_metric_mode)>>
          ELSE <<>>)
         \o <<ModelCheckpoint(TRUE, 1, a.monitor_metric,
                              a.monitor_metric_mode)>>
    ELSE <<>>

\* The devices a device spec resolves to, of those visible: a count of -1 is
\* all of them, a count k the first k, an id list those ids.
Devices(gpus, nvisible) ==
    IF gpus.kind = "ids" THEN gpus.ids
    ELSE IF gpus.n = -1 THEN 0..(nvisible - 1)
    ELSE 0..(gpus.n - 1)

\* The trainer refuses a device spec that asks for devices that are not there.
DeviceError(gpus, nvisible) ==
    \/ gpus.kind = "count" /\ gpus.n = -1 /\ nvisible = 0
    \/ gpus.kind = "count" /\ gpus.n < -1
    \/ ~(Devices(gpus, nvisible) \subseteq 0..(nvisible - 1))

\* As TrainerSpec, with sync_batchnorm left at its default.
TrainerSpec_NoSync(a, lg, cbs) ==
    [logger |-> lg,
     gpus |-> a.gpus,
     max_epochs |-> a.epochs,
     accelerator |-> "ddp",
     resume_from_checkpoint |-> a.resume_from,
     callbacks |-> cbs,
     sync_batchnorm |-> FALSE,
     log_every_n_steps |-> a.log_steps,
     precision |-> a.precision]

\* Lines 139-147: the options handed to pl.Trainer.
TrainerSpec(a, lg, cbs) ==
    [logger |-> lg,
     gpus |-> a.gpus,
     max_epochs |-> a.epochs,
     accelerator |-> "ddp",
     resume_from_checkpoint |-> a.resume_from,
     callbacks |-> cbs,
     sync_batchnorm |-> TRUE,
     log_every_n_steps |-> a.log_steps,
     precision |-> a.precision]

\* ----------------------------------------------------------- the fit loop

Metrics == 0..MaxMetric

\* EarlyStopping's monitor_op: strictly greater in mode max, strictly less in
\* mode min; the first score always improves on the initial +-infinity.
Improved(mode, current, best) ==
    \/ IsNone(best)
    \/ mode = "max" /\ current > Val(best)
    \/ mode = "min" /\ current < Val(best)

\* EarlyStopping's state after an evaluation: the best score, the count of
\* evaluations since it, and whether the count has reached patience.
EarlyStopStep(mode, patience, st, current) ==
    IF Improved(mode, current, st.best)
    THEN [best |-> Some(current), wait |-> 0, stop |-> FALSE]
    ELSE [best |-> st.best, wait |-> st.wait + 1,
          stop |-> st.wait + 1 >= patience]

EarlyStops(cbs) == {i \in 1..Len(cbs) : cbs[i].kind = "EarlyStopping"}

Larger(a, b) == IF a >= b THEN a ELSE b

\* The run states a checkpoint of a run in progress may hold: the epoch
\* counter and EarlyStopping's state (none without an EarlyStopping).
Checkpoints(max_epochs, cbs) ==
    {c \in [epoch : 0..max_epochs, wait : 0..MaxPatience,
            best : {None} \cup {Some(m) : m \in Metrics}] :
        IF EarlyStops(cbs) = {}
        THEN c.wait = 0 /\ c.best = None
        ELSE /\ \A i \in EarlyStops(cbs) :
                    c.wait < Larger(cbs[i].patience, 1)
             /\ c.wait <= Larger(c.epoch - 1, 0)
             /\ (c.best = None) = (c.epoch = 0)}

\* ------------------------------------------------------------ the process

NoFit ==
    [current_epoch |-> 0, start_epoch |-> 0, should_stop |-> FALSE,
     wait |-> 0, best |-> None]

\* The evaluations of the monitored metric so far, judged by the configured
\* direction: the best value, the number of consecutive evaluations that did
\* not improve on it, and the number of evaluations of this process.
NoHist == [streak |-> 0, best |-> None, evals |-> 0]

\* The process before main has run; at is "main", or "off" for a process
\* that is not started.
PipeStart(c, v, at) ==
    /\ cli = c
    /\ visible = v
    /\ ckpt = None
    /\ args = None
    /\ pc = at
    /\ exit_code = None
    /\ error = ""
    /\ seed_state = None
    /\ log = <<>>
    /\ normalize_t = None
    /\ transform = None
    /\ train_ds = None
    /\ train_dl = None
    /\ val_ds = None
    /\ val_dl = None
    /\ model = None
    /\ weights = None
    /\ lit = None
    /\ logger = None
    /\ callbacks = <<>>
    /\ trainer = None
    /\ fit = NoFit
    /\ hist = NoHist

WeightsOff ==
    /\ blobP = <<>>
    /\ arch = {}
    /\ restoredWrapped = None
    /\ restoredBare = None

LoaderOff ==
    /\ ld = None
    /\ order = <<>>
    /\ pos = <<>>
    /\ batch = <<>>
    /\ batches = <<>>

\* An uncaught exception: the process ends with a non-zero status.
Fail(err, status) ==
    /\ pc' = "failed"
    /\ exit_code' = Some(status)
    /\ error' = err

\* Lines 151-153: main parses the command line and prints the namespace.
Main ==
    /\ pc = "main"
    /\ IF ParseFails(cli)
       THEN /\ Fail("ConfigError", 2)
            /\ UNCHANGED <<args, log>>
       ELSE /\ args' = get_arguments(cli)
            /\ log' = Append(log, Ev("print", args'))
            /\ pc' = "seed"
            /\ UNCHANGED <<exit_code, error>>
    /\ UNCHANGED <<cli, visible, ckpt, seed_state, normalize_t, transform,
                   train_ds, train_dl, val_ds, val_dl, model, weights, lit,
                   logger, callbacks, trainer, fit, hist>>
    /\ UNCHANGED <<weightVars, loaderVars>>

\* Line 90: the seed is used or drawn, and written into the namespace.
SeedEverything ==
    /\ pc = "seed"
    /\ \E s \in SeedChoices(args.random_seed) :
          /\ seed_state' = Some(s)
          /\ args' = [args EXCEPT !.random_seed = Some(s)]
    /\ log' = Append(log, Ev("seed_everything", args'))
    /\ pc' = "train_data"
    /\ UNCHANGED <<cli, visible, ckpt, exit_code, error, normalize_t,
                   transform, train_ds, train_dl, val_ds, val_dl, model,
                   weights, lit, logger, callbacks, trainer, fit, hist>>
    /\ UNCHANGED <<weightVars, loaderVars>>

\* Lines 92-103: normalization, augmentation, the train dataset and loader.
BuildTrainData ==
    /\ pc = "train_data"
    /\ normalize_t' = Some("PytorchHubNormalization")
    /\ transform' = Transform(args)
    /\ LET r == TrainDataset(args, transform', normalize_t')
       IN IF r.ok
          THEN /\ train_ds' = r.ds
               /\ train_dl' = Some(TrainLoader(Val(r.ds), args))
               /\ log' = Append(log, Ev("train_ds", args))
               /\ pc' = "val_data"
               /\ UNCHANGED <<exit_code, error>>
          ELSE /\ Fail("DataError", 1)
               /\ UNCHANGED <<train_ds, train_dl, log>>
    /\ UNCHANGED <<cli, visible, ckpt, args, seed_state, val_ds, val_dl,
                   model, weights, lit, logger, callbacks, trainer, fit,
                   hist>>
    /\ UNCHANGED <<weightVars, loaderVars>>

\* Lines 105-108: the validation dataset and loader, when requested.
BuildValData ==
    /\ pc = "val_data"
    /\ IF ~args.validation
       THEN /\ pc' = "model"
            /\ UNCHANGED <<val_ds, val_dl, log, exit_code, error>>
       ELSE LET r == ValDataset(args, normalize_t)
            IN IF r.ok
               THEN /\ val_ds' = r.ds
                    /\ val_dl' = Some(ValLoader(Val(r.ds), args))
                    /\ log' = Append(log, Ev("val_ds", args))
                    /\ pc' = "model"
                    /\ UNCHANGED <<exit_code, error>>
               ELSE /\ Fail("DataError", 1)
                    /\ UNCHANGED <<val_ds, val_dl, log>>
    /\ UNCHANGED <<cli, visible, ckpt, args, seed_state, normalize_t,
                   transform, train_ds, train_dl, model, weights, lit,
                   logger, callbacks, trainer, fit, hist>>
    /\ UNCHANGED <<weightVars, loaderVars>>

\* Lines 110-115: the model of the selected variant.
ConstructModel ==
    /\ pc = "model"
    /\ model' = Some(BuildModel(args))
    /\ log' = Append(log, Ev("model", args))
    /\ pc' = "weights"
    /\ UNCHANGED <<cli, visible, ckpt, args, exit_code, error, seed_state,
                   normalize_t, transform, train_ds, train_dl, val_ds,
                   val_dl, weights, lit, logger, callbacks, trainer, fit,
                   hist>>
    /\ UNCHANGED <<weightVars, loaderVars>>

\* Lines 117-124: the pretrained weights, when a path is given; the file
\* holds the parameter mapping blobP, bare or wrapped.
RestoreWeights ==
    /\ pc = "weights"
    /\ IF IsNone(args.pretrained_weights)
       THEN /\ pc' = "wrap"
            /\ UNCHANGED <<weights, exit_code, error>>
       ELSE \E state_dict \in {Dict(blobP), Wrap(blobP)} :
               LET r == LoadWeights(arch, state_dict)
               IN IF r.ok
                  THEN /\ weights' = r.state
                       /\ pc' = "wrap"
                       /\ UNCHANGED <<exit_code, error>>
                  ELSE /\ Fail("WeightLoadError", 1)
                       /\ UNCHANGED weights
    /\ UNCHANGED <<cli, visible, ckpt, args, seed_state, log, normalize_t,
                   transform, train_ds, train_dl, val_ds, val_dl, model, lit,
                   logger, callbacks, trainer, fit, hist>>
    /\ UNCHANGED <<weightVars, loaderVars>>

\* Lines 126-130: the training wrapper, the logger, and the record of the
\* hyperparameters.
WrapAndLog ==
    /\ pc = "wrap"
    /\ lit' = Some([model |-> Val(model), num_classes |-> args.num_classes,
                    args |-> args])
    /\ logger' = Some([save_dir |-> <<args.output_dir, "logs">>,
                       name |-> args.model_name, hparams |-> args])
    /\ log' = Append(log, Ev("log_hyperparams", args))
    /\ pc' = "callbacks"
    /\ UNCHANGED <<cli, visible, ckpt, args, exit_code, error, seed_state,
                   normalize_t, transform, train_ds, train_dl, val_ds,
                   val_dl, model, weights, callbacks, trainer, fit, hist>>
    /\ UNCHANGED <<weightVars, loaderVars>>

\* Lines 132-137: the callback set.
BuildCallbacks ==
    /\ pc = "callbacks"
    /\ callbacks' = Callbacks(args)
    /\ pc' = "trainer"
    /\ UNCHANGED <<cli, visible, ckpt, args, exit_code, error, seed_state,
                   log, normalize_t, transform, train_ds, train_dl, val_ds,
                   val_dl, model, weights, lit, logger, trainer, fit, hist>>
    /\ UNCHANGED <<weightVars, loaderVars>>

\* Lines 139-147: the trainer.
BuildTrainer ==
    /\ pc = "trainer"
    /\ IF DeviceError(args.gpus, visible)
       THEN /\ Fail("MisconfigurationException", 1)
            /\ UNCHANGED <<trainer, log>>
       ELSE /\ trainer' = Some(TrainerSpec(args, Val(logger), callbacks))
            /\ log' = Append(log, Ev("trainer", args))
            /\ pc' = "start_fit"
            /\ UNCHANGED <<exit_code, error>>
    /\ UNCHANGED <<cli, visible, ckpt, args, seed_state, normalize_t,
                   transform, train_ds, train_dl, val_ds, val_dl, model,
                   weights, lit, logger, callbacks, fit, hist>>
    /\ UNCHANGED <<weightVars, loaderVars>>

\* Line 148, entering fit: a fresh run starts at epoch 0; a resumed one
\* continues from the run state its checkpoint holds.
StartFit ==
    /\ pc = "start_fit"
    /\ LET tr == Val(trainer)
       IN IF IsNone(tr.resume_from_checkpoint)
          THEN /\ fit' = NoFit
               /\ hist' = NoHist
               /\ UNCHANGED ckpt
          ELSE \E c \in Checkpoints(tr.max_epochs, tr.callbacks) :
                  /\ ckpt' = Some(c)
                  /\ fit' = [current_epoch |-> c.epoch,
                             start_epoch |-> c.epoch,
                             should_stop |-> FALSE,
                             wait |-> c.wait, best |-> c.best]
                  /\ hist' = [streak |-> c.wait, best |-> c.best,
                              evals |-> 0]
    /\ pc' = "fit"
    /\ UNCHANGED <<cli, visible, args, exit_code, error, seed_state, log,
                   normalize_t, transform, train_ds, train_dl, val_ds,
                   val_dl, model, weights, lit, logger, callbacks, trainer>>
    /\ UNCHANGED <<weightVars, loaderVars>>

\* The history after an evaluation gave the monitored metric the value m.
Evaluated(h, mode, m) ==
    IF Improved(mode, m, h.best)
    THEN [streak |-> 0, best |-> Some(m), evals |-> h.evals + 1]
    ELSE [streak |-> h.streak + 1, best |-> h.best, evals |-> h.evals + 1]

\* One epoch of fit: training, then (with a validation loader) an evaluation
\* of the monitored metric, on which EarlyStopping acts.  An EarlyStopping
\* without an evaluation finds its metric missing and raises.
FitEpoch ==
    /\ pc = "fit"
    /\ LET tr == Val(trainer)
           es == EarlyStops(tr.callbacks)
       IN /\ ~fit.should_stop
          /\ fit.current_epoch < tr.max_epochs
          /\ IF IsNone(val_dl)
             THEN /\ IF es = {}
                     THEN /\ fit' = [fit EXCEPT !.current_epoch = @ + 1]
                          /\ UNCHANGED <<pc, exit_code, error>>
                     ELSE /\ Fail("RuntimeError", 1)
                          /\ UNCHANGED fit
                  /\ UNCHANGED hist
             ELSE \E m \in Metrics :
                     /\ hist' = Evaluated(hist, args.monitor_metric_mode, m)
                     /\ IF es = {}
                        THEN fit' = [fit EXCEPT !.current_epoch = @ + 1]
                        ELSE LET cb == tr.callbacks[CHOOSE i \in es : TRUE]
                                 st == EarlyStopStep(cb.mode, cb.patience,
                                                     fit, m)
                             IN fit' = [fit EXCEPT
                                          !.current_epoch = @ + 1,
                                          !.should_stop = @ \/ st.stop,
                                          !.wait = st.wait,
                                          !.best = st.best]
                     /\ UNCHANGED <<pc, exit_code, error>>
    /\ UNCHANGED <<cli, visible, ckpt, args, seed_state, log, normalize_t,
                   transform, train_ds, train_dl, val_ds, val_dl, model,
                   weights, lit, logger, callbacks, trainer>>
    /\ UNCHANGED <<weightVars, loaderVars>>

\* fit returns when the epoch budget is used up or a callback asked to stop;
\* train_wasr and main return and the process exits with status 0.
FitEnd ==
    /\ pc = "fit"
    /\ fit.should_stop \/ fit.current_epoch >= Val(trainer).max_epochs
    /\ pc' = "done"
    /\ exit_code' = Some(0)
    /\ UNCHANGED <<cli, visible, ckpt, args, error, seed_state, log,
                   normalize_t, transform, train_ds, train_dl, val_ds,
                   val_dl, model, weights, lit, logger, callbacks, trainer,
                   fit, hist>>
    /\ UNCHANGED <<weightVars, loaderVars>>

\* ------------------------------------------------------- the command lines

OptPatience == {None} \cup {Some(p) : p \in 0..MaxPatience}

\* Runs that differ in what decides the callbacks and the course of fit.
LifecycleLines ==
    {[NoFlags EXCEPT !.model_name = Some("run"),
                     !.train_file = Some("train.yaml"), !.val_file = vf,
                     !.validation = v, !.patience = p, !.random_seed = rs,
                     !.monitor_metric_mode = mm, !.resume_from = rf,
                     !.epochs = e] :
        vf \in {None, Some("val.yaml")},
        v \in BOOLEAN,
        p \in OptPatience,
        rs \in {None, Some(MaxSeed)},
        mm \in {None, Some("min")},
        rf \in {None, Some("last.ckpt")},
        e \in 1..MaxEpochs}

\* Runs with a required flag or a manifest path missing.
IncompleteLines ==
    {[NoFlags EXCEPT !.model_name = mn, !.train_file = tf, !.val_file = vf,
                     !.validation = v, !.precision = pr] :
        mn \in {None, Some("run")},
        tf \in {None, Some("train.yaml"), Some("missing.yaml")},
        vf \in {None, Some("val.yaml")},
        v \in BOOLEAN,
        pr \in {None, Some(16), Some(8)}}

GpuSpecs ==
    {None} \cup {Some(GpuCount(k)) : k \in 0..MaxVisible}
           \cup {Some(GpuIds(S)) : S \in SUBSET (0..(MaxVisible - 1)) \ {{}}}

\* Runs that differ in what decides the datasets, the model and the trainer.
BuildLines ==
    {[NoFlags EXCEPT !.model_name = Some("run"),
                     !.train_file = Some("train.yaml"), !.val_file = vf,
                     !.validation = v, !.model = m, !.imu = i,
                     !.no_augmentation = na, !.gpus = g,
                     !.pretrained = pt, !.pretrained_weights = pw] :
        vf \in {Some("val.yaml"), Some("missing.yaml")},
        v \in BOOLEAN,
        m \in {None, Some("wasr_resnet50"), Some("deeplab")},
        i \in BOOLEAN,
        na \in BOOLEAN,
        g \in GpuSpecs,
        pt \in {None, Some(FALSE)},
        pw \in {None, Some("weights.pth")}}

\* The parameter mappings a weights file of a run may hold, and the names of
\* the constructed model's parameters.
RunArch == {"backbone", "decoder"}

RunBlobs ==
    {[k \in S |-> Tensor(MaxParam)] : S \in {RunArch, {"backbone"}}}

\* A run: its command line, the number of visible devices, and the
\* parameter mapping its weights file holds.
Runs ==
    ((LifecycleLines \cup IncompleteLines) \X {1}
        \X {[k \in RunArch |-> Tensor(MaxParam)]})
    \cup (BuildLines \X (0..MaxVisible) \X RunBlobs)

Init ==
    /\ \E r \in Runs :
          /\ PipeStart(r[1], r[2], "main")
          /\ blobP = r[3]
    /\ arch = RunArch
    /\ restoredWrapped = None
    /\ restoredBare = None
    /\ LoaderOff

Next ==
    \/ Main
    \/ SeedEverything
    \/ BuildTrainData
    \/ BuildValData
    \/ ConstructModel
    \/ RestoreWeights
    \/ WrapAndLog
    \/ BuildCallbacks
    \/ BuildTrainer
    \/ StartFit
    \/ FitEpoch
    \/ FitEnd

Spec == Init /\ [][Next]_vars

\* ------------------------------------------------- iterating the loaders

Roles == {"train", "val"}

\* The index sequences a sampler over n samples may produce: in order
\* without shuffling; with shuffling any permutation (up to MaxShuffle
\* samples) or, of a longer dataset, its rotations and its reversal.
Orders(n, shuffle) ==
    IF ~shuffle THEN {[i \in 1..n |-> i - 1]}
    ELSE IF n <= MaxShuffle
    THEN {f \in [1..n -> 0..(n - 1)] :
             \A i, j \in 1..n : f[i] = f[j] => i = j}
    ELSE {[i \in 1..n |-> (i - 1 + k) % n] : k \in 0..(n - 1)}
         \cup {[i \in 1..n |-> n - i]}

\* The two loaders train_wasr builds for a command line, both manifests
\* readable.
Loaders(c) ==
    LET a == get_arguments(c)
        norm == Some("PytorchHubNormalization")
    IN [train |-> TrainLoader(Val(TrainDataset(a, Transform(a), norm).ds), a),
        val |-> ValLoader(Val(ValDataset(a, norm).ds), a)]

\* The manifests hold the same n samples; each loader's sampler has drawn
\* its index sequence and nothing is consumed.
InitLoader ==
    /\ \E b \in 1..MaxBatch :
          ld = Some(Loaders([NoFlags EXCEPT
                               !.model_name = Some("run"),
                               !.train_file = Some("train.yaml"),
                               !.val_file = Some("val.yaml"),
                               !.validation = TRUE,
                               !.batch_size = Some(b)]))
    /\ \E n \in 0..MaxSamples :
          order \in [train : Orders(n, Val(ld).train.shuffle),
                     val : Orders(n, Val(ld).val.shuffle)]
    /\ pos = [r \in Roles |-> 0]
    /\ batch = [r \in Roles |-> <<>>]
    /\ batches = [r \in Roles |-> <<>>]
    /\ \E c \in {NoFlags} : PipeStart(c, 0, "off")
    /\ WeightsOff

\* BatchSampler takes the next index; a batch that reaches batch_size is
\* yielded.
SamplerNext(r) ==
    /\ ~IsNone(ld)
    /\ pos[r] < Len(order[r])
    /\ LET grown == Append(batch[r], order[r][pos[r] + 1])
       IN IF Len(grown) = Val(ld)[r].batch_size
          THEN /\ batches' = [batches EXCEPT ![r] = Append(@, grown)]
               /\ batch' = [batch EXCEPT ![r] = <<>>]
          ELSE /\ batch' = [batch EXCEPT ![r] = grown]
               /\ UNCHANGED batches
    /\ pos' = [pos EXCEPT ![r] = @ + 1]
    /\ UNCHANGED <<ld, order>>
    /\ UNCHANGED <<pipeVars, weightVars>>

\* The sampler is exhausted: a partial batch is yielded unless drop_last.
SamplerEnd(r) ==
    /\ ~IsNone(ld)
    /\ pos[r] = Len(order[r])
    /\ IF Len(batch[r]) > 0 /\ ~Val(ld)[r].drop_last
       THEN batches' = [batches EXCEPT ![r] = Append(@, batch[r])]
       ELSE UNCHANGED batches
    /\ batch' = [batch EXCEPT ![r] = <<>>]
    /\ pos' = [pos EXCEPT ![r] = @ + 1]
    /\ UNCHANGED <<ld, order>>
    /\ UNCHANGED <<pipeVars, weightVars>>

Exhausted(r) == ~IsNone(ld) /\ pos[r] > Len(order[r])

NextLoader == \E r \in Roles : SamplerNext(r) \/ SamplerEnd(r)

SpecLoader == InitLoader /\ [][NextLoader]_vars

\* ------------------------------------------ loading one mapping both ways

\* A parameter mapping and a model; the mapping is saved wrapped in one file
\* and bare in another, and each file is loaded into the model.
InitWeights ==
    /\ blobP \in ParamMaps
    /\ arch \in SUBSET ParamNames
    /\ restoredWrapped = None
    /\ restoredBare = None
    /\ \E c \in {NoFlags} : PipeStart(c, 0, "off")
    /\ LoaderOff

LoadWrapped ==
    /\ IsNone(restoredWrapped)
    /\ restoredWrapped' = Some(LoadWeights(arch, Wrap(blobP)))
    /\ UNCHANGED <<blobP, arch, restoredBare>>
    /\ UNCHANGED <<pipeVars, loaderVars>>

LoadBare ==
    /\ IsNone(restoredBare)
    /\ restoredBare' = Some(LoadWeights(arch, Dict(blobP)))
    /\ UNCHANGED <<blobP, arch, restoredWrapped>>
    /\ UNCHANGED <<pipeVars, loaderVars>>

NextWeights == LoadWrapped \/ LoadBare

SpecWeights == InitWeights /\ [][NextWeights]_vars

\* ------------------------------------------------------------- properties

\* The positions at which the callback set has been built.
AfterCallbacks == {"trainer", "start_fit", "fit", "done"}

\* The positions inside and after fit.
InFit == {"fit", "done"}

\* C1: without --validation the callback set handed to the trainer is empty
\* whatever --patience is, nothing asks fit to stop, and fit returns normally
\* only with the epoch counter at max_epochs (a fresh run having started
\* at 0, so that it ran exactly max_epochs epochs).
C1_NoValidationRunsToBudget ==
    (pc \in AfterCallbacks /\ ~cli.validation) =>
        /\ callbacks = <<>>
        /\ (pc \in InFit \cup {"start_fit"} =>
               /\ Val(trainer).callbacks = <<>>
               /\ Val(trainer).max_epochs = cli.epochs)
        /\ ~fit.should_stop
        /\ (pc \in InFit /\ IsNone(cli.resume_from) => fit.start_epoch = 0)
        /\ (pc = "done" =>
               /\ fit.current_epoch = cli.epochs
               /\ exit_code = Some(0))

C1_Witness ==
    /\ pc = "done"
    /\ ~cli.validation
    /\ ~IsNone(cli.patience)
    /\ IsNone(cli.resume_from)
    /\ cli.epochs = MaxEpochs
    /\ fit.current_epoch - fit.start_epoch = MaxEpochs

\* C2: with --validation and --patience p, as soon as p consecutive
\* evaluations (at least one) have not improved the monitored metric in the
\* configured direction, fit is asked to stop and runs no further epoch,
\* whatever is left of the epoch budget: the count never passes p.
C2_PatienceStops ==
    (pc \in InFit /\ cli.validation /\ ~IsNone(cli.patience)) =>
        LET p == Larger(Val(cli.patience), 1)
        IN /\ hist.streak <= p
           /\ (hist.streak >= p => fit.should_stop)
           /\ (pc = "done" => exit_code = Some(0))

C2_Witness ==
    /\ pc = "done"
    /\ cli.validation
    /\ cli.patience = Some(MaxPatience)
    /\ IsNone(cli.resume_from)
    /\ hist.streak = MaxPatience
    /\ hist.evals = MaxPatience + 1
    /\ fit.should_stop
    /\ fit.current_epoch < Val(trainer).max_epochs

\* C3: with --validation the callback set holds exactly one ModelCheckpoint
\* (save_last, save_top_k = 1, on the configured metric and mode) whatever
\* patience is, and an EarlyStopping (on the same metric and mode, with the
\* given patience) if and only if --patience is given.
C3_CallbackSet ==
    (pc \in AfterCallbacks /\ cli.validation) =>
        LET a == get_arguments(cli)
            cps == {i \in 1..Len(callbacks) :
                       callbacks[i].kind = "ModelCheckpoint"}
            ess == {i \in 1..Len(callbacks) :
                       callbacks[i].kind = "EarlyStopping"}
        IN /\ Cardinality(cps) = 1
           /\ \A i \in cps :
                 /\ callbacks[i].save_last
                 /\ callbacks[i].save_top_k = 1
                 /\ callbacks[i].monitor = a.monitor_metric
                 /\ callbacks[i].mode = a.monitor_metric_mode
           /\ Cardinality(ess) = (IF IsNone(cli.patience) THEN 0 ELSE 1)
           /\ \A i \in ess :
                 /\ callbacks[i].patience = Val(cli.patience)
                 /\ callbacks[i].monitor = a.monitor_metric
                 /\ callbacks[i].mode = a.monitor_metric_mode
           /\ Len(callbacks) = Cardinality(cps) + Cardinality(ess)
           /\ (pc # "trainer" => Val(trainer).callbacks = callbacks)

C3_Witness ==
    /\ pc = "done"
    /\ cli.validation
    /\ IsNone(cli.patience)
    /\ Len(Val(trainer).callbacks) = 1
    /\ Val(trainer).callbacks[1].kind = "ModelCheckpoint"

\* How often sample k occurs in the batches bs.
Occurrences(bs, k) ==
    Cardinality({ij \in (1..Len(bs)) \X (1..MaxBatch + 1) :
                    ij[2] <= Len(bs[ij[1]]) /\ bs[ij[1]][ij[2]] = k})

\* C4: over a manifest of n samples with batch size b > 0, the train loader
\* (shuffled, drop-last) yields exactly floor(n/b) batches, each of size b,
\* and the validation loader (unshuffled, no drop-last) yields exactly
\* ceil(n/b) batches that hold every sample exactly once.
C4_BatchCounts ==
    ~IsNone(ld) =>
        LET n == Len(order.train)
            b == Val(ld).train.batch_size
        IN /\ Val(ld).train.shuffle /\ Val(ld).train.drop_last
           /\ ~Val(ld).val.shuffle /\ ~Val(ld).val.drop_last
           /\ Val(ld).val.batch_size = b
           /\ (Exhausted("train") =>
                  /\ Len(batches.train) = n \div b
                  /\ \A i \in 1..Len(batches.train) :
                        Len(batches.train[i]) = b)
           /\ (Exhausted("val") =>
                  /\ Len(batches.val) = (n + b - 1) \div b
                  /\ \A i \in 1..Len(batches.val) :
                        Len(batches.val[i]) \in 1..b
                  /\ \A k \in 0..(n - 1) : Occurrences(batches.val, k) = 1)

C4_Witness ==
    /\ Exhausted("train")
    /\ Exhausted("val")
    /\ Len(order.train) = 10
    /\ Len(order.val) = 10
    /\ Val(ld).train.batch_size = 3
    /\ Len(batches.train) = 3
    /\ Len(batches.val) = 4
    /\ Len(batches.val[4]) = 1

BothLoaded == ~IsNone(restoredWrapped) /\ ~IsNone(restoredBare)

\* C5 as stated: for every parameter mapping P, loading the wrapper {model: P}
\* and loading the bare P restore the same model state.
C5_AnyMappingSameState ==
    BothLoaded => restoredWrapped = restoredBare

\* C5, amended: for every parameter mapping P that has no parameter named
\* model, loading the wrapper {model: P} and loading the bare P restore the
\* same model state; a bare P that has one is itself taken for a wrapper, and
\* what is loaded is its entry model.
C5_SameStateUnlessModelKey ==
    /\ (BothLoaded /\ "model" \notin DOMAIN blobP) =>
           /\ restoredWrapped = restoredBare
           /\ Val(restoredBare) = load_state_dict(arch, Dict(blobP))
    /\ (~IsNone(restoredBare) /\ "model" \in DOMAIN blobP) =>
           Val(restoredBare) = load_state_dict(arch, blobP["model"])
    /\ ~IsNone(restoredWrapped) =>
           Val(restoredWrapped) = load_state_dict(arch, Dict(blobP))

C5_Witness ==
    /\ BothLoaded
    /\ "model" \notin DOMAIN blobP
    /\ DOMAIN blobP = {"backbone", "decoder"}
    /\ Val(restoredWrapped).ok
    /\ Val(restoredWrapped).state = Some(blobP)
    /\ Val(restoredBare).state = Some(blobP)

Echoes == {"print", "log_hyperparams"}

Constructions == {"train_ds", "val_ds", "model", "trainer"}

\* C6 as stated: in a run with --random-seed unset, every echo of the
\* configuration (the print in main, the logger's hyperparameter record)
\* comes after the seed was derived and written into the configuration,
\* carries that seed, and comes before any dataset, model or trainer is
\* built.
C6_EchoCarriesSeedFirst ==
    IsNone(cli.random_seed) =>
        \A i \in 1..Len(log) :
            log[i].ev \in Echoes =>
                /\ ~IsNone(log[i].seed)
                /\ \E j \in 1..(i - 1) : log[j].ev = "seed_everything"
                /\ \A j \in 1..(i - 1) : log[j].ev \notin Constructions

\* C7: with --validation and no --val-file (the command line otherwise
\* accepted), no model, training wrapper or trainer is ever built and fit is
\* never entered; the run can only end failed, with DataError and a non-zero
\* exit status.
C7_MissingValFileIsFatal ==
    (cli.validation /\ IsNone(cli.val_file) /\ ~ParseFails(cli)) =>
        /\ pc \in {"main", "seed", "train_data", "val_data", "failed"}
        /\ model = None
        /\ lit = None
        /\ trainer = None
        /\ fit = NoFit
        /\ exit_code # Some(0)
        /\ (pc = "failed" => error = "DataError" /\ exit_code = Some(1))

C7_Witness ==
    /\ cli.validation
    /\ IsNone(cli.val_file)
    /\ pc = "failed"
    /\ error = "DataError"
    /\ train_dl # None
    /\ val_ds = None

\* C8: with variant deeplab the model is built without error by
\* deeplabv3_resnet101 with no imu argument, and is the model the same
\* configuration with the --imu flag flipped builds; with the variants
\* wasr_resnet101 and wasr_resnet50 the flag is passed on as given.
C8_ImuNotForwardedToDeeplab ==
    model # None =>
        LET a == get_arguments(cli)
            m == Val(model)
        IN /\ (a.model = "deeplab" =>
                  /\ m.factory = "deeplabv3_resnet101"
                  /\ "imu" \notin DOMAIN m.kwargs
                  /\ m = BuildModel([a EXCEPT !.imu = ~@])
                  /\ pc = "failed" =>
                        error \in {"WeightLoadError",
                                   "MisconfigurationException"})
           /\ (a.model \in {"wasr_resnet101", "wasr_resnet50"} =>
                  /\ "imu" \in DOMAIN m.kwargs
                  /\ m.kwargs.imu = cli.imu)

C8_Witness ==
    /\ pc = "done"
    /\ cli.model = Some("deeplab")
    /\ cli.imu
    /\ Val(model).factory = "deeplabv3_resnet101"

\* C9: whenever the trainer's device spec resolves to more than one device
\* (a count, an id list or all visible devices), batch-norm synchronization
\* is on and the execution mode is ddp.
C9_MultiDeviceSyncsBatchNorm ==
    (trainer # None /\ Cardinality(Devices(Val(trainer).gpus, visible)) > 1) =>
        /\ Val(trainer).sync_batchnorm
        /\ Val(trainer).accelerator = "ddp"

C9_Witness ==
    /\ pc = "done"
    /\ IsNone(cli.gpus)
    /\ Val(trainer).gpus = GpuCount(NUM_GPUS)
    /\ Cardinality(Devices(Val(trainer).gpus, visible)) = 2
    /\ Val(trainer).sync_batchnorm

\* C10: the augmentation transform exists unless --no-augmentation is given
\* and is attached only to the training dataset; the validation dataset has
\* no transform, and the same normalization as the training dataset.
C10_AugmentationOnlyOnTrain ==
    /\ train_ds # None =>
          /\ transform = (IF cli.no_augmentation THEN None
                          ELSE Some("augmentation"))
          /\ Val(train_ds).transform = transform
          /\ Val(train_dl).dataset = Val(train_ds)
    /\ val_ds # None =>
          /\ Val(val_ds).transform = None
          /\ Val(val_ds).normalize_t = Val(train_ds).normalize_t
          /\ Val(val_ds).normalize_t = normalize_t
          /\ Val(val_dl).dataset = Val(val_ds)
    /\ (val_ds # None) => cli.validation

C10_Witness ==
    /\ pc = "done"
    /\ cli.validation
    /\ ~cli.no_augmentation
    /\ Val(train_ds).transform = Some("augmentation")
    /\ Val(val_ds).transform = None

====
